---- MODULE Spec2Model ----
(***************************************************************************)
(* Node health / rotation policy (steepbase/node.py) and the sequential    *)
(* call dispatch of HttpClient.call (steepbase/http_client.py).            *)
(*                                                                         *)
(* A call is followed at the granularity of the generator protocol: one    *)
(* step resumes NodesContainer.lap until its next yield (or its end), one  *)
(* step runs the body of the for loop of HttpClient.call on the node that  *)
(* was yielded (build the body, post it, classify the answer).             *)
(***************************************************************************)
EXTENDS Integers, Sequences, FiniteSets, TLC

(* ---------------------------------------------------------------- bounds *)

\* the clock (minutes, the unit of the Node timeouts) runs from 0 to MaxClock
MaxClock == 2

\* the caller identities; Spec runs the calls of caller 1 one after another
NumCalls == 2

Calls == 1..NumCalls

(* ------------------------------------------------------- the configured ring *)

\* the list handed to NodesContainer.__init__
nodes_urls == <<"node1", "node2">>

\* NodesContainer._nodes_amount
nodes_amount == Len(nodes_urls)

\* NodesContainer._nodes, by list index
Nodes == 0..(nodes_amount - 1)

(* ------------------------------------------------------------ Node constants *)

\* Node.__init__ default, minutes
ban_timeout == 2

\* Node.__init__ default, minutes
unavailable_timeout == 20

\* None: a timestamp that was never set, a local that is not bound yet
None == -1

(* ------------------------------------------------------ HttpClient constants *)

success_codes == {200, 301, 302, 303, 307, 308}

\* mutant: 429 is not taken for a ban
ban_codes_without_429 == {403}

ban_codes == {403, 429}

\* mutant: 504 is not taken for unavailability
unavailability_codes_without_504 == {502, 503}

unavailability_codes == {502, 503, 504}

retry_exceptions ==
    {"MaxRetryError", "ConnectionResetError", "ReadTimeoutError",
     "RemoteDisconnected", "ProtocolError", "RPCErrorRecoverable",
     "JSONDecodeError"}

\* the classes `except Exception` catches: every exception the try body can
\* raise derives from Exception
ExceptionClasses ==
    retry_exceptions \cup {"RPCError", "AssertionError", "KeyError"}

(* ------------------------------------------------- what a node can answer *)

\* session.post raising instead of returning
TransportErrors == {"ConnectionResetError", "ReadTimeoutError", "ProtocolError"}

\* the status codes the nodes answer with
StatusCodes == {200, 403, 429, 500, 502, 503, 504}

\* result['error'] of an error body, as <<code, message>>: code 1 is what a
\* legacy node answers; the messages are the three _is_error_recoverable
\* knows and one it does not
ErrorBodies ==
    {<<1, "Unable to acquire database lock">>, <<1, "Assert Exception">>,
     <<1, "Internal Error">>, <<-32603, "Internal Error">>,
     <<-32603, "Unknown exception">>, <<-32603, "Assert Exception">>}

\* a response: raise names the exception session.post raised ("" when it
\* returned), body is the shape of response.content
\*   "malformed"  not JSON            "blank"   JSON that is falsy ({})
\*   "neither"    no result, no error "result"  a result and no error
\*   "error"      an error object with code and message
NoBody == [raise |-> "", status |-> 0, body |-> "", code |-> 0, message |-> ""]

Responses ==
    {[NoBody EXCEPT !.raise = e] : e \in TransportErrors}
    \cup {[NoBody EXCEPT !.status = s] : s \in StatusCodes \ success_codes}
    \cup {[NoBody EXCEPT !.status = 200, !.body = b] :
              b \in {"malformed", "blank", "neither", "result"}}
    \cup {[NoBody EXCEPT !.status = 200, !.body = "error",
                          !.code = e[1], !.message = e[2]] : e \in ErrorBodies}

\* the keyword arguments of a call that call() itself reads, as a set of
\* <<key, value>>: none, or the caller opting out of the default API
KwargsChoices == {{}, {<<"set_default_api", FALSE>>}}

(* -------------------------------------------------------------- Connector *)

\* the longest list of endpoints handed to Connector
MaxEndpoints == 3

\* an endpoint URL, cut where urlparse looks: the text before the first ':'
\* (when there is a ':'), the ':' and the rest
EndpointUrls ==
    {<<"https", ":", "//node1">>, <<"HTTP", ":", "//node1">>, <<"node1">>,
     <<"ws", ":", "//node1">>, <<"wss", ":", "//node2">>,
     <<"ftp", ":", "//node2">>}

\* str.lower on the scheme texts that occur
lower(t) == IF t = "HTTP" THEN "http" ELSE t

\* urlparse(url).scheme: the text before the first ':' in lower case, '' for a
\* URL without one
urlparse_scheme(url) ==
    IF Len(url) >= 2 /\ url[2] = ":" THEN lower(url[1]) ELSE ""

ws_schemas == {"ws", "wss"}

http_schemas == {"", "http", "https"}

\* mutant: the scheme of the first endpoint decides
get_scheme_of_first(nodes) ==
    IF nodes = <<>> THEN "InvalidNodeSchemes"
    ELSE IF urlparse_scheme(nodes[1]) \in ws_schemas THEN "ws"
    ELSE IF urlparse_scheme(nodes[1]) \in http_schemas THEN "http"
    ELSE "InvalidNodeSchemes"

\* Connector.get_scheme: 'ws' or 'http', or the exception it raises
get_scheme(nodes) ==
    LET is_ws   == \E k \in DOMAIN nodes : urlparse_scheme(nodes[k]) \in ws_schemas
        is_http == \E k \in DOMAIN nodes : urlparse_scheme(nodes[k]) \in http_schemas
    IN  IF (is_ws /\ is_http) \/ (~is_ws /\ ~is_http)
        THEN "InvalidNodeSchemes"
        ELSE IF is_ws THEN "ws" ELSE "http"

\* Connector.__init__: the class of self.client, or the exception raised
Connector_client(nodes) ==
    LET scheme == get_scheme(nodes)
    IN  IF scheme = "InvalidNodeSchemes" THEN "InvalidNodeSchemes"
        ELSE IF scheme = "http" THEN "HttpClient"
        ELSE IF scheme = "ws" THEN "WsClient"
        ELSE "InvalidNodeSchemes"

\* the endpoint lists of up to k URLs
RECURSIVE EndpointLists(_)
EndpointLists(k) ==
    IF k = 0 THEN {<<>>}
    ELSE EndpointLists(k - 1)
         \cup {Append(l, u) : l \in {m \in EndpointLists(k - 1) : Len(m) = k - 1},
                              u \in EndpointUrls}

(* ------------------------------------------------------------------ state *)

VARIABLES
    now,                    \* datetime.now(), in minutes
    available,              \* Node._available
    banned,                 \* Node._banned
    use_condenser_api,      \* Node._use_condenser_api
    ban_timestamp,          \* Node._ban_timestamp
    unavailable_timestamp,  \* Node._unavailable_timestamp
    current_node,           \* NodesContainer._current_node (list index)
    nodes_cycle,            \* NodesContainer._nodes_cycle (index it returns next)
    pc,                     \* where each call stands
    kwargs,                 \* the kwargs dict of each call
    lap_started,            \* the call's generator ran its first lines
    lap_i,                  \* completed iterations of the generator's for loop
    node,                   \* the loop variable `node` of call()
    outcome,                \* how the call ended
    call_kwargs,            \* history: the kwargs the call was invoked with
    yielded,                \* history: the nodes the call's lap yielded, in order
    resp,                   \* history: the answer to the call's latest request
    body_api,               \* history: the latest body carried the default API
    try_exit,               \* history: how the latest pass left the try body
    only_recoverable,       \* history: every pass so far failed recoverably
    only_429,               \* history: every answer so far was status 429
    health_changed,         \* history: a node's health changed since the lap began
    ban_set_at,             \* Node on its own: when set_banned ran, no reset() since
    is_banned_ret,          \* Node on its own: what is_banned last returned, when
    connector_nodes,        \* the `nodes` argument of Connector.__init__
    client,                 \* Connector.client, or the exception __init__ raised
    race_pc,                \* WsClient.call: "idle", "waiting" for a task, "done"
    task,                   \* WsClient.call: the state of the task of each endpoint
    finished,               \* WsClient.call: the tasks that completed, in order
    delivered               \* history: the outcomes handed to the caller of the call

nodeVars == <<available, banned, use_condenser_api, ban_timestamp,
              unavailable_timestamp>>

ringVars == <<current_node, nodes_cycle>>

callVars == <<pc, kwargs, lap_started, lap_i, node, outcome>>

histVars == <<call_kwargs, yielded, resp, body_api, try_exit, only_recoverable,
              only_429, health_changed>>

\* is_banned was not read since set_banned ran (or ever)
Unread == [value |-> FALSE, at |-> None]

\* what is kept of the parts of the program that are exercised on their own
nodeAloneVars == <<ban_set_at, is_banned_ret>>

connectorVars == <<connector_nodes, client>>

racingVars == <<race_pc, task, finished, delivered>>

aloneVars == <<nodeAloneVars, connectorVars, racingVars>>

vars == <<now, nodeVars, ringVars, callVars, histVars, aloneVars>>

(* ------------------------------------------------------------------- Node *)

\* The flags of all nodes as one value (a: _available, b: _banned,
\* u: _use_condenser_api), so that the properties that heal a flag while they
\* read it can be applied one after another.
Health == [a |-> available, b |-> banned, u |-> use_condenser_api]

\* mutant: a node is taken for available whatever its flag
is_available_whatever(h, n) == TRUE

\* Node.is_available: the new _available of node n, which is also the value
\* the property returns
is_available(h, n) ==
    IF ~h.a[n] /\ now >= unavailable_timestamp[n] + unavailable_timeout
    THEN TRUE
    ELSE h.a[n]

\* mutant: the ban never expires
is_banned_never_expires(h, n) == h.b[n]

\* Node.is_banned: the new _banned of node n, which is also the value the
\* property returns
is_banned(h, n) ==
    IF h.b[n] /\ now >= ban_timestamp[n] + ban_timeout
    THEN FALSE
    ELSE h.b[n]

\* mutant: every node is taken for working, whatever its flags
is_working_whatever(h, n) == [value |-> TRUE, h |-> h]

\* Node.is_working: `self.is_available and not self.is_banned`; is_banned is
\* only evaluated (and only heals) when is_available returned True
is_working(h, n) ==
    LET a1 == is_available(h, n)
        b1 == IF a1 THEN is_banned(h, n) ELSE h.b[n]
    IN  [value |-> a1 /\ ~b1,
         h     |-> [a |-> [h.a EXCEPT ![n] = a1], b |-> [h.b EXCEPT ![n] = b1],
                   u |-> h.u]]

\* mutant: reset() takes the node back to all that __init__ set
reset_nodes_as_new(h) ==
    [a |-> [n \in Nodes |-> TRUE], b |-> [n \in Nodes |-> FALSE],
     u |-> [n \in Nodes |-> TRUE]]

\* Node.reset on every node: NodesContainer._reset_nodes; reset() writes
\* _banned and _available and nothing else
reset_nodes(h) ==
    [a |-> [n \in Nodes |-> TRUE], b |-> [n \in Nodes |-> FALSE], u |-> h.u]

\* NodesContainer._working_nodes_exist from list index k on: stops at the
\* first working node, having read (and healed) the nodes before it
RECURSIVE working_nodes_exist(_, _)
working_nodes_exist(h, k) ==
    IF k >= nodes_amount
    THEN [value |-> FALSE, h |-> h]
    ELSE LET r == is_working(h, k)
         IN  IF r.value THEN [value |-> TRUE, h |-> r.h]
                        ELSE working_nodes_exist(r.h, k + 1)

\* mutant: the cycle hands out the same node again
cycle_next_stuck(k) == k

\* next(self._nodes_cycle): the index itertools.cycle returns after index k
cycle_next(k) == (k + 1) % nodes_amount

\* mutant: the loop goes round the ring twice
lap_range_twice == 2 * nodes_amount

\* `range(self._nodes_amount)`: the iterations of the for loop of lap
lap_range == nodes_amount

\* the for loop of NodesContainer.lap from iteration i on, with the cursor at
\* cur and the cycle about to return cyc: runs to the next yield or to the end
RECURSIVE lap_loop(_, _, _, _)
lap_loop(h, cur, cyc, i) ==
    IF i >= lap_range
    THEN [yield |-> FALSE, h |-> h, cur |-> cur, cyc |-> cyc, i |-> i]
    ELSE LET r == is_working(h, cur)
         IN  IF r.value
             THEN [yield |-> TRUE, h |-> r.h, cur |-> cur, cyc |-> cyc, i |-> i]
             ELSE lap_loop(r.h, cyc, cycle_next(cyc), i + 1)

\* mutant: the lap moves the cursor on before it looks at a node
lap_from_successor(cur, cyc) == [cur |-> cyc, cyc |-> cycle_next(cyc)]

\* where the for loop of a new lap stands before its first iteration: on
\* the cursor as the last lap left it, the cycle untouched
lap_from(cur, cyc) == [cur |-> cur, cyc |-> cyc]

\* mutant: the ring is not reset when no node is working
lap_begin_no_reset(h) == working_nodes_exist(h, 0).h

\* the first lines of NodesContainer.lap
lap_begin(h) ==
    LET w == working_nodes_exist(h, 0)
    IN  IF w.value THEN w.h ELSE reset_nodes(w.h)

\* what is_working would return for a node with these fields at time t,
\* read without healing anything
WorkingAt(a, b, bts, uts, t) ==
    {n \in Nodes :
        /\ (a[n] \/ t >= uts[n] + unavailable_timeout)
        /\ ~(b[n] /\ t < bts[n] + ban_timeout)}

WorkingSet == WorkingAt(available, banned, ban_timestamp, unavailable_timestamp, now)

(* ------------------------------------------------------------- HttpClient *)

\* HttpClient._is_error_recoverable
is_error_recoverable(r) ==
    \/ r.message = "Unable to acquire database lock"
    \/ r.message = "Unknown exception"
    \/ (r.message = "Internal Error" /\ r.code = -32603)

\* `legacy = result['error']['code'] == 1`
legacy(r) == r.code = 1

\* mutant: the result is looked up under a key the body does not have
result_exit_wrong_key(r) == "KeyError"

\* `return result['result']`: a body without the key raises KeyError
result_exit(r) == IF r.body = "neither" THEN "KeyError" ELSE "return"

\* the try body of HttpClient.call on node n for answer r: how it is left,
\* "return", "continue" (the downgrade) or the class of the exception raised
call_try(n, r) ==
    IF r.raise # "" THEN r.raise
    ELSE IF r.status \notin success_codes THEN "RPCErrorRecoverable"
    ELSE IF r.body = "malformed" THEN "JSONDecodeError"
    ELSE IF r.body = "blank" THEN "AssertionError"
    ELSE IF r.body = "error"
         THEN IF legacy(r) /\ use_condenser_api[n] THEN "continue"
              ELSE IF is_error_recoverable(r) THEN "RPCErrorRecoverable"
              ELSE "RPCError"
    ELSE result_exit(r)

\* mutant: the except clauses raise what they caught again
call_except_reraise(e) == "raise"

\* the two except clauses of HttpClient.call for an exception of class e:
\* both only log, so the for loop goes on; anything else leaves call()
call_except(e) ==
    IF e \in retry_exceptions THEN "continue"
    ELSE IF e \in ExceptionClasses THEN "continue"
    ELSE "raise"

\* `set_default_api = True; if 'set_default_api' in kwargs: ...`
set_default_api(kw) ==
    IF \E p \in kw : p[1] = "set_default_api"
    THEN (CHOOSE p \in kw : p[1] = "set_default_api")[2]
    ELSE TRUE

\* kwargs.pop('set_default_api')
kwargs_pop(kw) == {p \in kw : p[1] # "set_default_api"}

\* `if set_default_api and node.use_condenser_api: body_kwargs['api'] = ...`
body_has_api(kw, n) == set_default_api(kw) /\ use_condenser_api[n]

(* ---------------------------------------------------------------- actions *)

\* after NodesContainer.__init__ (every Node as Node.__init__ leaves it, the
\* cursor on the first node) and before any call
Init ==
    /\ now = 0
    /\ available = [n \in Nodes |-> TRUE]
    /\ banned = [n \in Nodes |-> FALSE]
    /\ use_condenser_api = [n \in Nodes |-> TRUE]
    /\ ban_timestamp = [n \in Nodes |-> None]
    /\ unavailable_timestamp = [n \in Nodes |-> None]
    /\ current_node = 0
    /\ nodes_cycle = cycle_next(0)
    /\ pc = [c \in Calls |-> "idle"]
    /\ kwargs = [c \in Calls |-> {}]
    /\ lap_started = [c \in Calls |-> FALSE]
    /\ lap_i = [c \in Calls |-> 0]
    /\ node = [c \in Calls |-> None]
    /\ outcome = [c \in Calls |-> ""]
    /\ call_kwargs = [c \in Calls |-> {}]
    /\ yielded = [c \in Calls |-> <<>>]
    /\ resp = [c \in Calls |-> NoBody]
    /\ body_api = [c \in Calls |-> FALSE]
    /\ try_exit = [c \in Calls |-> ""]
    /\ only_recoverable = [c \in Calls |-> TRUE]
    /\ only_429 = [c \in Calls |-> TRUE]
    /\ health_changed = [c \in Calls |-> FALSE]
    /\ ban_set_at = [n \in Nodes |-> None]
    /\ is_banned_ret = [n \in Nodes |-> Unread]
    /\ connector_nodes = <<>>
    /\ client = "unbuilt"
    /\ race_pc = "idle"
    /\ task = <<>>
    /\ finished = <<>>
    /\ delivered = <<>>

\* history: a call whose lap is under way notes that this step changed the
\* set of working nodes; `starting` are the calls whose lap begins in this
\* step (what the first lines of lap do to the ring is where the lap begins)
NoteHealth(starting) ==
    LET after == WorkingAt(available', banned', ban_timestamp',
                           unavailable_timestamp', now')
    IN  health_changed' =
            [d \in Calls |->
                IF d \in starting THEN FALSE
                ELSE health_changed[d]
                     \/ (lap_started[d] /\ after # WorkingSet)]

\* the wall clock moves on
Tick ==
    /\ now < MaxClock
    /\ now' = now + 1
    /\ UNCHANGED <<nodeVars, ringVars, callVars, aloneVars>>
    /\ UNCHANGED <<call_kwargs, yielded, resp, body_api, try_exit,
                   only_recoverable, only_429>>
    /\ NoteHealth({})

\* HttpClient.call is entered: `self.nodes.lap()` makes the generator, which
\* runs nothing yet
Call(c, kw) ==
    /\ pc[c] \in {"idle", "done"}
    /\ pc' = [pc EXCEPT ![c] = "lap"]
    /\ kwargs' = [kwargs EXCEPT ![c] = kw]
    /\ lap_started' = [lap_started EXCEPT ![c] = FALSE]
    /\ lap_i' = [lap_i EXCEPT ![c] = 0]
    /\ outcome' = [outcome EXCEPT ![c] = ""]
    /\ call_kwargs' = [call_kwargs EXCEPT ![c] = kw]
    /\ yielded' = [yielded EXCEPT ![c] = <<>>]
    /\ resp' = [resp EXCEPT ![c] = NoBody]
    /\ body_api' = [body_api EXCEPT ![c] = FALSE]
    /\ try_exit' = [try_exit EXCEPT ![c] = ""]
    /\ only_recoverable' = [only_recoverable EXCEPT ![c] = TRUE]
    /\ only_429' = [only_429 EXCEPT ![c] = TRUE]
    /\ health_changed' = [health_changed EXCEPT ![c] = FALSE]
    /\ node' = [node EXCEPT ![c] = None]
    /\ UNCHANGED <<now, nodeVars, ringVars, aloneVars>>

\* the for statement of HttpClient.call asks the generator for its next node:
\* NodesContainer.lap runs from where it stands (its first line, or the yield
\* it is suspended at) to its next yield; when the generator ends instead,
\* the for loop is over and call() raises NumRetriesReached
LapNext(c) ==
    /\ pc[c] = "lap"
    /\ UNCHANGED <<now, ban_timestamp, unavailable_timestamp>>
    /\ UNCHANGED aloneVars
    /\ LET first == ~lap_started[c]
           h0  == IF first THEN lap_begin(Health) ELSE Health
           cur == IF first THEN lap_from(current_node, nodes_cycle).cur
                           ELSE nodes_cycle
           cyc == IF first THEN lap_from(current_node, nodes_cycle).cyc
                           ELSE cycle_next(nodes_cycle)
           i   == IF first THEN 0 ELSE lap_i[c] + 1
           r   == lap_loop(h0, cur, cyc, i)
       IN  /\ available' = r.h.a
           /\ banned' = r.h.b
           /\ use_condenser_api' = r.h.u
           /\ current_node' = r.cur
           /\ nodes_cycle' = r.cyc
           /\ lap_i' = [lap_i EXCEPT ![c] = r.i]
           /\ lap_started' = [lap_started EXCEPT ![c] = TRUE]
           /\ IF r.yield
              THEN /\ pc' = [pc EXCEPT ![c] = "yielded"]
                   /\ node' = [node EXCEPT ![c] = r.cur]
                   /\ yielded' = [yielded EXCEPT ![c] = Append(@, r.cur)]
                   /\ outcome' = outcome
              ELSE /\ pc' = [pc EXCEPT ![c] = "done"]
                   /\ outcome' = [outcome EXCEPT ![c] = "NumRetriesReached"]
                   /\ UNCHANGED <<node, yielded>>
           /\ NoteHealth(IF first THEN {c} ELSE {})
    /\ UNCHANGED <<kwargs, call_kwargs, only_recoverable, only_429>>
    \* what was noted of the previous pass is history of that pass
    /\ resp' = [resp EXCEPT ![c] = NoBody]
    /\ body_api' = [body_api EXCEPT ![c] = FALSE]
    /\ try_exit' = [try_exit EXCEPT ![c] = ""]

\* one pass through the body of the for loop of HttpClient.call, on the node
\* the generator yielded, with r what the node answers
Attempt(c, r) ==
    /\ pc[c] = "yielded"
    /\ UNCHANGED <<now, ringVars, lap_started, lap_i, node, call_kwargs, yielded>>
    /\ UNCHANGED aloneVars
    /\ LET n    == node[c]
           exit == call_try(n, r)
           goes == IF exit \in {"return", "continue"} THEN exit ELSE call_except(exit)
           ban  == r.raise = "" /\ r.status \notin success_codes
                   /\ r.status \in ban_codes
           una  == r.raise = "" /\ r.status \notin success_codes
                   /\ r.status \notin ban_codes
                   /\ r.status \in unavailability_codes
       IN  /\ kwargs' = [kwargs EXCEPT ![c] = kwargs_pop(@)]
           /\ body_api' = [body_api EXCEPT ![c] = body_has_api(kwargs[c], n)]
           /\ resp' = [resp EXCEPT ![c] = r]
           /\ try_exit' = [try_exit EXCEPT ![c] = exit]
           /\ only_recoverable' =
                  [only_recoverable EXCEPT ![c] =
                      @ /\ exit \in retry_exceptions \cup {"continue"}]
           /\ only_429' =
                  [only_429 EXCEPT ![c] = @ /\ r.raise = "" /\ r.status = 429]
           \* Node.set_banned
           /\ banned' = IF ban THEN [banned EXCEPT ![n] = TRUE] ELSE banned
           /\ ban_timestamp' =
                  IF ban THEN [ban_timestamp EXCEPT ![n] = now] ELSE ban_timestamp
           \* Node.set_unavailable
           /\ available' = IF una THEN [available EXCEPT ![n] = FALSE] ELSE available
           /\ unavailable_timestamp' =
                  IF una THEN [unavailable_timestamp EXCEPT ![n] = now]
                         ELSE unavailable_timestamp
           \* node.use_condenser_api = False
           /\ use_condenser_api' =
                  IF exit = "continue" THEN [use_condenser_api EXCEPT ![n] = FALSE]
                                       ELSE use_condenser_api
           /\ pc' = [pc EXCEPT ![c] = IF goes = "continue" THEN "lap" ELSE "done"]
           /\ outcome' = [outcome EXCEPT ![c] =
                             IF goes = "return" THEN "result"
                             ELSE IF goes = "raise" THEN exit
                             ELSE ""]
    /\ NoteHealth({})

\* the calls of one caller, one after another
Next ==
    \/ Tick
    \/ \E kw \in KwargsChoices : Call(1, kw)
    \/ LapNext(1)
    \/ \E r \in Responses : Attempt(1, r)

Spec == Init /\ [][Next]_vars

\* what the nodes answer while several calls share the ring: one answer of
\* each kind that call() treats differently (no mark, ban, unavailable, result)
SharedRingResponses ==
    {r \in Responses :
        \/ r.raise = "ConnectionResetError"
        \/ r.status \in {403, 503}
        \/ r.body = "result"}

\* several callers (threads) use one HttpClient, and so one NodesContainer,
\* at the same time, one call each: a call has its own generator and locals, the
\* nodes, the cursor and the cycle are shared; the calls interleave where a
\* generator is suspended at its yield and where a request is in flight
NextShared ==
    \/ Tick
    \/ \E c \in Calls : pc[c] = "idle" /\ Call(c, {})
    \/ \E c \in Calls : LapNext(c)
    \/ \E c \in Calls : \E r \in SharedRingResponses : Attempt(c, r)

SpecShared == Init /\ [][NextShared]_vars

\* one caller after the other: caller 1 makes its calls one after another,
\* then caller 2 makes one call, which so follows the last call of caller 1
\* with nothing in between; what is kept of both calls can be compared
NextConsecutive ==
    \/ Tick
    \/ pc[2] = "idle" /\ Call(1, {})
    \/ pc[1] = "done" /\ pc[2] = "idle" /\ Call(2, {})
    \/ \E c \in Calls : LapNext(c)
    \/ \E c \in Calls : \E r \in SharedRingResponses : Attempt(c, r)

SpecConsecutive == Init /\ [][NextConsecutive]_vars

(* ------------------------------------------------------ Connector built *)

\* Connector(nodes): a new client, on which no call was made yet
Connector(nodes) ==
    /\ connector_nodes' = nodes
    /\ client' = Connector_client(nodes)
    /\ race_pc' = "idle"
    /\ task' = <<>>
    /\ finished' = <<>>
    /\ delivered' = <<>>
    /\ UNCHANGED <<now, nodeVars, ringVars, callVars, histVars, nodeAloneVars>>

NextConnector == \E nodes \in EndpointLists(MaxEndpoints) : Connector(nodes)

SpecConnector == Init /\ [][NextConnector]_vars

(* ------------------------------------------------- the racing call (WS) *)

\* the tasks that have not completed and were not cancelled
Pending == {k \in DOMAIN task : task[k] \in {"pending", "retrying"}}

\* the call is made: one request per configured node, each its own task
RaceCall ==
    /\ client = "WsClient"
    /\ race_pc \in {"idle", "done"}
    /\ race_pc' = "waiting"
    /\ task' = [k \in DOMAIN connector_nodes |-> "pending"]
    /\ finished' = <<>>
    /\ delivered' = <<>>
    /\ UNCHANGED <<now, nodeVars, ringVars, callVars, histVars, nodeAloneVars,
                   connectorVars>>

\* the request of task k fails at transport level: the task retries once,
\* inline, on the same node; a second failure is what it reports to the race
TaskTransportError(k) ==
    /\ race_pc = "waiting"
    /\ k \in Pending
    /\ IF task[k] = "pending"
       THEN task' = [task EXCEPT ![k] = "retrying"] /\ finished' = finished
       ELSE task' = [task EXCEPT ![k] = "failed"] /\ finished' = Append(finished, k)
    /\ UNCHANGED <<now, nodeVars, ringVars, callVars, histVars, nodeAloneVars,
                   connectorVars, race_pc, delivered>>

\* the node of task k answers: the task completes, with a result or an error
TaskAnswer(k, ok) ==
    /\ race_pc = "waiting"
    /\ k \in Pending
    /\ task' = [task EXCEPT ![k] = IF ok THEN "succeeded" ELSE "failed"]
    /\ finished' = Append(finished, k)
    /\ UNCHANGED <<now, nodeVars, ringVars, callVars, histVars, nodeAloneVars,
                   connectorVars, race_pc, delivered>>

\* mutant: the task that completed last is taken
first_completed_is_last(f) == f[Len(f)]

\* the task whose outcome the call takes: the first that completed
first_completed(f) == f[1]

\* the call resumes on the first completion: it cancels the tasks still
\* pending and hands the outcome of the first completed task to the caller
RaceWake ==
    /\ race_pc = "waiting"
    /\ finished # <<>>
    /\ race_pc' = "done"
    /\ task' = [k \in DOMAIN task |-> IF k \in Pending THEN "cancelled" ELSE task[k]]
    /\ delivered' =
           Append(delivered,
                  [node    |-> first_completed(finished),
                   outcome |-> IF task[first_completed(finished)] = "succeeded"
                               THEN "result" ELSE "error"])
    /\ UNCHANGED <<now, nodeVars, ringVars, callVars, histVars, nodeAloneVars,
                   connectorVars, finished>>

\* the global timeout elapses with nothing completed: exhaustion
RaceTimeout ==
    /\ race_pc = "waiting"
    /\ finished = <<>>
    /\ race_pc' = "done"
    /\ task' = [k \in DOMAIN task |-> "cancelled"]
    /\ delivered' = Append(delivered, [node |-> 0, outcome |-> "exhaustion"])
    /\ UNCHANGED <<now, nodeVars, ringVars, callVars, histVars, nodeAloneVars,
                   connectorVars, finished>>

\* mutant: the answer to a cancelled task is handed to the caller as well
late_response_surfaces(d, k) == Append(d, [node |-> k, outcome |-> "result"])

\* what the caller has been handed after the answer to the cancelled task k
\* arrived: the answer is discarded
late_response(d, k) == d

\* the answer to a request that was on the wire when its task was cancelled
\* arrives
LateResponse(k) ==
    /\ k \in DOMAIN task
    /\ task[k] = "cancelled"
    /\ task' = [task EXCEPT ![k] = "discarded"]
    /\ delivered' = late_response(delivered, k)
    /\ UNCHANGED <<now, nodeVars, ringVars, callVars, histVars, nodeAloneVars,
                   connectorVars, race_pc, finished>>

\* a Connector is built and calls are made on its WsClient, one at a time
NextRacing ==
    \/ client = "unbuilt" /\ \E nodes \in EndpointLists(MaxEndpoints) : Connector(nodes)
    \/ RaceCall
    \/ \E k \in DOMAIN task : TaskTransportError(k)
    \/ \E k \in DOMAIN task : \E ok \in BOOLEAN : TaskAnswer(k, ok)
    \/ RaceWake
    \/ RaceTimeout
    \/ \E k \in DOMAIN task : LateResponse(k)

SpecRacing == Init /\ [][NextRacing]_vars

(* ------------------------------------------- new_client.NodesContainer *)

\* new_client Node.__init__ default, minutes
new_unavailable_timeout == 30

\* new_client Node.is_available: as in steepbase, with its own timeout
new_is_available(h, n) ==
    IF ~h.a[n] /\ now >= unavailable_timestamp[n] + new_unavailable_timeout
    THEN TRUE
    ELSE h.a[n]

\* `self._current_node.is_available and not self._current_node.is_banned`
\* for node n (new_client Node.is_banned is the code of steepbase)
new_usable(h, n) ==
    LET a1 == new_is_available(h, n)
        b1 == IF a1 THEN is_banned(h, n) ELSE h.b[n]
    IN  [value |-> a1 /\ ~b1,
         h     |-> [a |-> [h.a EXCEPT ![n] = a1], b |-> [h.b EXCEPT ![n] = b1],
                   u |-> h.u]]

\* the for loop of new_client lap from iteration i on, the cycle about to
\* return cyc: each iteration first moves the cursor on, then looks at it
RECURSIVE new_lap_loop(_, _, _, _)
new_lap_loop(h, cur, cyc, i) ==
    IF i >= nodes_amount
    THEN [yield |-> FALSE, h |-> h, cur |-> cur, cyc |-> cyc, i |-> i]
    ELSE LET r == new_usable(h, cyc)
         IN  IF r.value
             THEN [yield |-> TRUE, h |-> r.h, cur |-> cyc,
                   cyc |-> cycle_next(cyc), i |-> i + 1]
             ELSE new_lap_loop(r.h, cyc, cycle_next(cyc), i + 1)

\* a client of the container calls lap(): the generator is made
NewLap(c) ==
    /\ pc[c] \in {"idle", "done"}
    /\ pc' = [pc EXCEPT ![c] = "lap"]
    /\ lap_started' = [lap_started EXCEPT ![c] = FALSE]
    /\ lap_i' = [lap_i EXCEPT ![c] = 0]
    /\ node' = [node EXCEPT ![c] = None]
    /\ outcome' = [outcome EXCEPT ![c] = ""]
    /\ yielded' = [yielded EXCEPT ![c] = <<>>]
    /\ UNCHANGED <<now, nodeVars, ringVars, kwargs, aloneVars>>
    /\ UNCHANGED <<call_kwargs, resp, body_api, try_exit, only_recoverable,
                   only_429, health_changed>>

\* the generator of new_client lap is resumed: its first line yields the
\* cursor as it stands; later it runs the for loop from where it stands to
\* the next yield or to its end (lap_i: the iterations begun so far)
NewLapNext(c) ==
    /\ pc[c] = "lap"
    /\ UNCHANGED <<now, ban_timestamp, unavailable_timestamp, kwargs, aloneVars>>
    /\ UNCHANGED <<call_kwargs, resp, body_api, try_exit, only_recoverable,
                   only_429, health_changed>>
    /\ lap_started' = [lap_started EXCEPT ![c] = TRUE]
    /\ LET r == IF ~lap_started[c]
                THEN [yield |-> TRUE, h |-> Health, cur |-> current_node,
                      cyc |-> nodes_cycle, i |-> 0]
                ELSE new_lap_loop(Health, current_node, nodes_cycle, lap_i[c])
       IN  /\ available' = r.h.a
           /\ banned' = r.h.b
           /\ use_condenser_api' = r.h.u
           /\ current_node' = r.cur
           /\ nodes_cycle' = r.cyc
           /\ lap_i' = [lap_i EXCEPT ![c] = r.i]
           /\ IF r.yield
              THEN /\ pc' = [pc EXCEPT ![c] = "yielded"]
                   /\ node' = [node EXCEPT ![c] = r.cur]
                   /\ yielded' = [yielded EXCEPT ![c] = Append(@, r.cur)]
                   /\ outcome' = outcome
              ELSE /\ pc' = [pc EXCEPT ![c] = "done"]
                   /\ outcome' = [outcome EXCEPT ![c] = "StopIteration"]
                   /\ UNCHANGED <<node, yielded>>

\* what the client of the container does with the node it was handed
Marks == {"none", "set_banned", "set_unavailable"}

\* the client has used the yielded node, has perhaps marked it, and asks the
\* generator for the next one
NewLapUse(c, mark) ==
    /\ pc[c] = "yielded"
    /\ pc' = [pc EXCEPT ![c] = "lap"]
    /\ banned' = IF mark = "set_banned"
                 THEN [banned EXCEPT ![node[c]] = TRUE] ELSE banned
    /\ ban_timestamp' = IF mark = "set_banned"
                        THEN [ban_timestamp EXCEPT ![node[c]] = now]
                        ELSE ban_timestamp
    /\ available' = IF mark = "set_unavailable"
                    THEN [available EXCEPT ![node[c]] = FALSE] ELSE available
    /\ unavailable_timestamp' = IF mark = "set_unavailable"
                                THEN [unavailable_timestamp EXCEPT ![node[c]] = now]
                                ELSE unavailable_timestamp
    /\ UNCHANGED <<now, use_condenser_api, ringVars, kwargs, lap_started, lap_i,
                   node, outcome, histVars, aloneVars>>

\* one client consumes the laps of a new_client container, one at a time
NextNewClient ==
    \/ Tick
    \/ NewLap(1)
    \/ NewLapNext(1)
    \/ \E mark \in Marks : NewLapUse(1, mark)

SpecNewClient == Init /\ [][NextNewClient]_vars

(* ------------------------------------------------- a Node used on its own *)

\* Node.set_banned on node n
set_banned(n) ==
    /\ ban_timestamp' = [ban_timestamp EXCEPT ![n] = now]
    /\ banned' = [banned EXCEPT ![n] = TRUE]
    /\ ban_set_at' = [ban_set_at EXCEPT ![n] = now]
    /\ is_banned_ret' = [is_banned_ret EXCEPT ![n] = Unread]
    /\ UNCHANGED <<now, available, use_condenser_api, unavailable_timestamp,
                   ringVars, callVars, histVars, connectorVars, racingVars>>

\* Node.set_unavailable on node n
set_unavailable(n) ==
    /\ unavailable_timestamp' = [unavailable_timestamp EXCEPT ![n] = now]
    /\ available' = [available EXCEPT ![n] = FALSE]
    /\ UNCHANGED <<now, banned, use_condenser_api, ban_timestamp,
                   ringVars, callVars, histVars, aloneVars>>

\* Node.reset on node n
reset(n) ==
    /\ banned' = [banned EXCEPT ![n] = FALSE]
    /\ available' = [available EXCEPT ![n] = TRUE]
    /\ ban_set_at' = [ban_set_at EXCEPT ![n] = None]
    /\ UNCHANGED <<now, use_condenser_api, ban_timestamp, unavailable_timestamp,
                   ringVars, callVars, histVars, is_banned_ret, connectorVars,
                   racingVars>>

\* the property Node.is_banned of node n is read: it heals the flag and
\* returns it
ReadIsBanned(n) ==
    /\ banned' = [banned EXCEPT ![n] = is_banned(Health, n)]
    /\ is_banned_ret' = [is_banned_ret EXCEPT ![n] =
                             [value |-> is_banned(Health, n), at |-> now]]
    /\ UNCHANGED <<now, available, use_condenser_api, ban_timestamp,
                   unavailable_timestamp, ringVars, callVars, histVars,
                   ban_set_at, connectorVars, racingVars>>

\* the property Node.is_working of node n is read
ReadIsWorking(n) ==
    /\ available' = is_working(Health, n).h.a
    /\ banned' = is_working(Health, n).h.b
    /\ UNCHANGED <<now, use_condenser_api, ban_timestamp, unavailable_timestamp,
                   ringVars, callVars, histVars, aloneVars>>

\* the methods and properties of the nodes called in any order, as a client
\* of the Node class can
NextNode ==
    \/ Tick
    \/ \E n \in Nodes : set_banned(n)
    \/ \E n \in Nodes : set_unavailable(n)
    \/ \E n \in Nodes : reset(n)
    \/ \E n \in Nodes : ReadIsBanned(n)
    \/ \E n \in Nodes : ReadIsWorking(n)

SpecNode == Init /\ [][NextNode]_vars

(* ----------------------------------------------------------------- claims *)

\* a pass of call c has just run: its answer is noted and the generator has
\* not been resumed since
Attempted(c) == resp[c] # NoBody

\* the answer noted for call c is a fatal RPC error: an error object that did
\* not downgrade the node and that _is_error_recoverable does not match
FatalAnswer(c) ==
    /\ Attempted(c)
    /\ resp[c].body = "error"
    /\ try_exit[c] # "continue"
    /\ ~is_error_recoverable(resp[c])

\* C1: a fatal RPC error ends the call at once: the call raises RPCError to
\* its caller, and so no further candidate is sent a request.
C1_FatalErrorRaised ==
    \A c \in Calls :
        FatalAnswer(c) => pc[c] = "done" /\ outcome[c] = "RPCError"

\* C2: after a legacy error has downgraded a node, the next request of the
\* call goes to that same node (with the degraded body), before any other
\* node is tried and before the call can end.
C2_DowngradeRetriesSameNode ==
    [][\A c \in Calls :
          (pc[c] = "lap" /\ try_exit[c] = "continue" /\ pc'[c] # "lap")
              => (pc'[c] = "yielded" /\ node'[c] = node[c])]_vars

\* C3: a call made with set_default_api=False sends no body that carries the
\* default API, to the first candidate or to any later one.
C3_OptOutCoversEveryCandidate ==
    \A c \in Calls :
        (Attempted(c) /\ <<"set_default_api", FALSE>> \in call_kwargs[c])
            => ~body_api[c]

\* a pass of the loop body of call c runs in this step
Pass(c) == pc[c] = "yielded" /\ resp'[c] # NoBody

\* C4: a success answer (success status, a result and no error) ends the call
\* at once with that node's result: no further candidate is asked, and the
\* health and downgrade flags of the nodes stay as they were.
C4_SuccessReturnsAtOnce ==
    [][\A c \in Calls :
          (Pass(c) /\ resp'[c].raise = "" /\ resp'[c].status \in success_codes
                   /\ resp'[c].body = "result")
              => /\ pc'[c] = "done"
                 /\ outcome'[c] = "result"
                 /\ yielded'[c] = yielded[c]
                 /\ yielded[c][Len(yielded[c])] = node[c]
                 /\ available' = available
                 /\ banned' = banned
                 /\ use_condenser_api' = use_condenser_api]_vars

\* a call returned the result of its first candidate while the ring held
\* more nodes for it to try
C4_Witness ==
    \E c \in Calls :
        /\ pc[c] = "done" /\ outcome[c] = "result"
        /\ Len(yielded[c]) = 1 /\ nodes_amount > 1

\* C5: a call all of whose candidates failed recoverably raises
\* NumRetriesReached; on the 2-node ring, when both nodes answered 429, it
\* raises NumRetriesReached and leaves both nodes banned.
C5_ExhaustionRaises ==
    \A c \in Calls :
        /\ (pc[c] = "done" /\ only_recoverable[c])
               => outcome[c] = "NumRetriesReached"
        /\ (pc[c] = "done" /\ only_429[c] /\ nodes_amount = 2
                           /\ Len(yielded[c]) = 2)
               => /\ outcome[c] = "NumRetriesReached"
                  /\ \A n \in Nodes : banned[n]

\* both nodes of the ring answered 429 to one call, which is over
C5_Witness ==
    \E c \in Calls :
        /\ pc[c] = "done" /\ only_429[c]
        /\ Len(yielded[c]) = 2 /\ yielded[c][1] # yielded[c][2]

\* C6: an answer with status 403 or 429 bans the node that gave it, one with
\* 502, 503 or 504 makes that node unavailable; the call goes on to the next
\* candidate and no other health flag of any node changes.
C6_StatusMarksThatNodeOnly ==
    [][\A c \in Calls :
          (Pass(c) /\ resp'[c].raise = "")
              => LET n  == node[c]
                     st == resp'[c].status
                 IN  /\ st \in {403, 429}
                           => /\ banned'[n] /\ ban_timestamp'[n] = now
                              /\ \A m \in Nodes \ {n} : banned'[m] = banned[m]
                              /\ available' = available
                              /\ pc'[c] = "lap"
                     /\ st \in {502, 503, 504}
                           => /\ ~available'[n] /\ unavailable_timestamp'[n] = now
                              /\ \A m \in Nodes \ {n} : available'[m] = available[m]
                              /\ banned' = banned
                              /\ pc'[c] = "lap"]_vars

\* a node has just answered 403 and is banned, the other node of the ring
\* has been made unavailable by a 5xx answer before
C6_Witness ==
    \E c \in Calls :
        /\ Attempted(c) /\ resp[c].status = 403 /\ banned[node[c]]
        /\ \E m \in Nodes \ {node[c]} : ~available[m] /\ ~banned[m]

Range(q) == {q[k] : k \in DOMAIN q}

NoRepeats(q) == \A j, k \in DOMAIN q : q[j] = q[k] => j = k

\* C8: a lap consumed to its end, with no health change since it began,
\* yielded every working node exactly once and no node that is not working;
\* on an all-healthy ring these are all the nodes, each once.
C8_LapYieldsWorkingNodesOnce ==
    \A c \in Calls :
        (pc[c] = "done" /\ outcome[c] = "NumRetriesReached" /\ ~health_changed[c])
            => /\ NoRepeats(yielded[c])
               /\ Range(yielded[c]) = WorkingSet
               /\ (WorkingSet = Nodes => Len(yielded[c]) = nodes_amount)

\* a lap over an all-healthy ring was consumed to its end
C8_Witness ==
    \E c \in Calls :
        /\ pc[c] = "done" /\ outcome[c] = "NumRetriesReached"
        /\ ~health_changed[c] /\ WorkingSet = Nodes
        /\ Len(yielded[c]) = nodes_amount

\* C9: a lap that begins when no node is working resets every node to
\* available and not banned and then yields a candidate.
C9_ResetWhenNoneWorking ==
    [][\A c \in Calls :
          (pc[c] = "lap" /\ ~lap_started[c] /\ lap_started'[c] /\ WorkingSet = {})
              => /\ pc'[c] = "yielded"
                 /\ \A n \in Nodes : available'[n] /\ ~banned'[n]]_vars

\* a candidate was yielded while the ban of every node is still running by
\* the clock and yet no node is flagged: the lap has reset the ring
C9_Witness ==
    \E c \in Calls :
        /\ pc[c] = "yielded" /\ Len(yielded[c]) = 1
        /\ \A n \in Nodes :
              /\ ban_timestamp[n] # None /\ now < ban_timestamp[n] + ban_timeout
              /\ ~banned[n] /\ available[n]

\* where the generator of call c looks first when it is resumed, and how many
\* iterations of its for loop are left then
ScanFrom(c) == IF lap_started[c] THEN nodes_cycle ELSE current_node

ScanLeft(c) == IF lap_started[c] THEN nodes_amount - (lap_i[c] + 1) ELSE nodes_amount

\* the ban of node n is set and its timeout has elapsed
BanElapsed(n) == banned[n] /\ now >= ban_timestamp[n] + ban_timeout

\* C10: while some node is working, a lap never yields a node whose ban has
\* not expired, whatever the cursor; and once the ban timeout has elapsed the
\* lap yields the node again when it comes to it.
C10_BannedSkippedUntilExpiry ==
    [][\A c \in Calls :
          /\ (pc[c] = "lap" /\ pc'[c] = "yielded" /\ WorkingSet # {})
                => ~(banned[node'[c]]
                     /\ now < ban_timestamp[node'[c]] + ban_timeout)
          /\ \A k \in 0..(nodes_amount - 1) :
                LET A == (ScanFrom(c) + k) % nodes_amount
                IN  (/\ pc[c] = "lap" /\ pc'[c] # "lap"
                     /\ k < ScanLeft(c)
                     /\ BanElapsed(A) /\ A \in WorkingSet
                     /\ \A j \in 0..(k - 1) :
                           (ScanFrom(c) + j) % nodes_amount \notin WorkingSet)
                        => /\ pc'[c] = "yielded" /\ node'[c] = A
                           /\ ~banned'[A]]_vars

\* a node that was banned is yielded after its ban timeout has elapsed, on a
\* ring whose other nodes were never penalised (so no lap ever reset it)
C10_Witness ==
    \E c \in Calls :
        /\ pc[c] = "yielded"
        /\ ban_timestamp[node[c]] # None
        /\ now >= ban_timestamp[node[c]] + ban_timeout
        /\ \A m \in Nodes \ {node[c]} :
              ban_timestamp[m] = None /\ unavailable_timestamp[m] = None

\* C11: health is read when a suspended lap is resumed and comes to a node,
\* not when the lap began: the node a resumed lap yields is working at that
\* moment, so a node that was banned or made unavailable while the lap was
\* suspended (by any call on the shared ring) is skipped.
C11_HealthReadAtYield ==
    [][\A c \in Calls :
          (pc[c] = "lap" /\ lap_started[c] /\ pc'[c] = "yielded")
              => /\ node'[c] \in WorkingSet
                 /\ available'[node'[c]] /\ ~banned'[node'[c]]]_vars

\* call c's lap began on an untouched ring, yielded the first node only and
\* ended: the other node, banned by another call after the lap began (the
\* only mark there ever was), was skipped when the lap came to it
C11_Witness ==
    \E c \in Calls :
        /\ pc[c] = "done" /\ outcome[c] = "NumRetriesReached"
        /\ yielded[c] = <<0>> /\ health_changed[c]
        /\ now < ban_timeout
        /\ banned[1] /\ ban_timestamp[1] # None
        /\ ban_timestamp[0] = None
        /\ \A n \in Nodes : unavailable_timestamp[n] = None
        /\ \E d \in Calls \ {c} : 1 \in Range(yielded[d])

\* the nodes in the order of the configured list, cyclically from node s
CyclicFrom(s) == [k \in 1..nodes_amount |-> (s + k - 1) % nodes_amount]

\* both laps were consumed to their end and every node was working from the
\* beginning of the first lap on
TwoLapsAllHealthy ==
    /\ \A c \in {1, 2} : pc[c] = "done" /\ outcome[c] = "NumRetriesReached"
                            /\ ~health_changed[c]
    /\ WorkingSet = Nodes

\* C12: on an all-healthy ring two consecutive laps consumed to their end
\* each yield every node once, in the cyclic order of the configured list,
\* each advance the cursor nodes_amount times, and leave the cursor on the
\* node the first lap began with.
C12_TwoLapsFullCircle ==
    TwoLapsAllHealthy
        => LET s == yielded[1][1]
           IN  /\ yielded[1] = CyclicFrom(s)
               /\ yielded[2] = CyclicFrom(s)
               /\ lap_i[1] = nodes_amount /\ lap_i[2] = nodes_amount
               /\ current_node = s
               /\ nodes_cycle = cycle_next(s)

\* two laps in a row went round an all-healthy ring that began at node 1
C12_Witness ==
    /\ TwoLapsAllHealthy
    /\ Len(yielded[1]) = nodes_amount /\ Len(yielded[2]) = nodes_amount
    /\ yielded[1][1] = 1 /\ yielded[2][1] = 1

\* C13: while set_banned has run and no reset() since, is_banned returns True
\* at every clock value before the timestamp of set_banned plus the ban
\* timeout and False at every clock value from then on; and once it has
\* returned False it returns False until set_banned runs again.
C13_BanRunsForItsTimeout ==
    [][\A n \in Nodes :
          is_banned_ret'[n] # Unread
              => /\ ban_set_at'[n] # None
                       => is_banned_ret'[n].value
                              = (is_banned_ret'[n].at < ban_set_at'[n] + ban_timeout)
                 /\ (is_banned_ret[n] # Unread /\ ~is_banned_ret[n].value)
                       => ~is_banned_ret'[n].value]_vars

\* is_banned was read at the very clock value at which the ban timeout had
\* elapsed, no reset() since set_banned: it returned False and cleared the flag
C13_Witness ==
    \E n \in Nodes :
        /\ ban_set_at[n] # None /\ ban_timeout > 0
        /\ is_banned_ret[n] = [value |-> FALSE, at |-> ban_set_at[n] + ban_timeout]
        /\ ~banned[n]

\* C14: the downgrade is one-way: the pass that downgrades a node leaves its
\* use_condenser_api False, and no step of any call (a pass, a lap and the
\* reset of the ring it may do, the clock) sets a False use_condenser_api
\* back to True.
C14_DowngradeIsOneWay ==
    [][/\ \A n \in Nodes : ~use_condenser_api[n] => ~use_condenser_api'[n]
       /\ \A c \in Calls :
             (Pass(c) /\ try_exit'[c] = "continue") => ~use_condenser_api'[node[c]]]_vars

\* a downgraded node has just been yielded by a lap that had to reset the
\* ring to find a candidate (its ban is still running by the clock), and the
\* node is still downgraded
C14_Witness ==
    \E c \in Calls :
        /\ pc[c] = "yielded" /\ Len(yielded[c]) = 1
        /\ ~use_condenser_api[node[c]]
        /\ \A n \in Nodes :
              /\ ban_timestamp[n] # None /\ now < ban_timestamp[n] + ban_timeout
              /\ ~banned[n] /\ available[n]

\* the schemes of the endpoints the Connector was built with
Schemes == {urlparse_scheme(connector_nodes[k]) : k \in DOMAIN connector_nodes}

\* C15: Connector raises InvalidNodeSchemes for an empty list, for a list
\* with a scheme of the http family ('', http, https) and one of the ws
\* family (ws, wss), and for a list with neither; any other list gets the
\* HttpClient when it has the http family and the WsClient when it has the
\* ws family.
C15_ConnectorSelectsOrRaises ==
    client # "unbuilt"
        => LET has_http == Schemes \cap {"", "http", "https"} # {}
               has_ws   == Schemes \cap {"ws", "wss"} # {}
           IN  IF connector_nodes = <<>> \/ (has_http /\ has_ws)
                  \/ (~has_http /\ ~has_ws)
               THEN client = "InvalidNodeSchemes"
               ELSE client = (IF has_http THEN "HttpClient" ELSE "WsClient")

\* a list of ws and wss endpoints got the WsClient
C15_Witness ==
    /\ client = "WsClient"
    /\ Schemes = {"ws", "wss"}

\* C16: a Connector that was built has endpoints of one family only: every
\* URL of an HttpClient has a scheme of the http family, every URL of a
\* WsClient one of the ws family.
C16_UniformScheme ==
    /\ client = "HttpClient" => Schemes \subseteq {"", "http", "https"}
    /\ client = "WsClient" => Schemes \subseteq {"ws", "wss"}

\* C17: in the racing call of the WsClient the caller is handed at most one
\* outcome; when the task that completed first succeeded, that outcome is
\* its result, every task that was still pending is cancelled, and an answer
\* that arrives for a cancelled task is not handed to the caller.
C17_FirstSuccessWinsOnce ==
    /\ Len(delivered) <= 1
    /\ (race_pc = "done" /\ finished # <<>> /\ task[finished[1]] = "succeeded")
           => /\ delivered = <<[node |-> finished[1], outcome |-> "result"]>>
              /\ Pending = {}
              /\ \A k \in DOMAIN task :
                    k \notin Range(finished) => task[k] \in {"cancelled", "discarded"}

\* three requests were raced: the second node answered first, with success,
\* the tasks of the two others were cancelled and the late answer of the
\* first node was discarded
C17_Witness ==
    /\ client = "WsClient" /\ race_pc = "done"
    /\ Len(task) = 3 /\ finished = <<2>>
    /\ task = <<"discarded", "succeeded", "cancelled">>
    /\ delivered = <<[node |-> 2, outcome |-> "result"]>>

\* what call c has left to do at most: two steps (a yield and a pass) for
\* every iteration its generator has not completed
Rank(c) ==
    IF pc[c] \notin {"lap", "yielded"} THEN 0
    ELSE IF pc[c] = "yielded" THEN 2 * (nodes_amount - lap_i[c])
    ELSE IF ~lap_started[c] THEN 2 * nodes_amount + 1
    ELSE 2 * (nodes_amount - lap_i[c]) - 1

\* C18: every call terminates and sends at most nodes_amount requests,
\* whatever the nodes answer: a call in progress has a step to take (the
\* guards of LapNext and Attempt ask for its position only), every step of it
\* brings it strictly nearer to its end (so no lap wraps a second time), and
\* its lap yields at most nodes_amount candidates.
C18_CallTerminatesWithinOneLap ==
    [][\A c \in Calls :
          pc[c] \in {"lap", "yielded"}
              => /\ Rank(c) > 0
                 /\ pc'[c] # pc[c] => Rank(c)' < Rank(c) /\ Rank(c)' >= 0
                 /\ Len(yielded'[c]) <= nodes_amount
                 /\ lap_i'[c] <= nodes_amount]_vars

\* a call sent a request to every node of the ring, got no result and ended
C18_Witness ==
    \E c \in Calls :
        /\ pc[c] = "done" /\ outcome[c] = "NumRetriesReached"
        /\ Len(yielded[c]) = nodes_amount /\ lap_i[c] = nodes_amount
        /\ ~only_recoverable[c]

\* C19: a success-status answer whose body has neither a result nor an error
\* (an entirely blank body included) is fatal: the call ends there with the
\* error it raised and asks no further candidate.
C19_BlankAnswerIsFatal ==
    \A c \in Calls :
        (/\ Attempted(c) /\ resp[c].raise = ""
         /\ resp[c].status \in success_codes
         /\ resp[c].body \in {"blank", "neither"})
            => pc[c] = "done" /\ outcome[c] \in {"AssertionError", "KeyError", "RPCError"}

\* the node of the pass answered with a status of the 5xx class
ServerError(r) == r.raise = "" /\ r.status >= 500 /\ r.status <= 599

\* the pass failed at transport level: connection reset, timeout (or another
\* exception of session.post), malformed body
TransportFailure(r) ==
    r.raise # "" \/ (r.status \in success_codes /\ r.body = "malformed")

\* C20 as claimed: a pass that fails at transport level or with any status of
\* the 5xx class leaves its node unavailable.
C20_AnyFailureMakesUnavailable ==
    [][\A c \in Calls :
          (Pass(c) /\ (TransportFailure(resp'[c]) \/ ServerError(resp'[c])))
              => ~available'[node[c]]]_vars

\* C20 amended: a pass answered with status 502, 503 or 504 leaves its node
\* unavailable, and a lap yields no node whose unavailability is running
\* unless it has just reset the ring because no node was working; a pass that
\* fails at transport level or with status 500 leaves the health of every
\* node as it was.
C20_Only502To504MakeUnavailable ==
    [][\A c \in Calls :
          /\ (Pass(c) /\ resp'[c].raise = "" /\ resp'[c].status \in {502, 503, 504})
                => ~available'[node[c]] /\ unavailable_timestamp'[node[c]] = now
          /\ (Pass(c) /\ (TransportFailure(resp'[c])
                            \/ (resp'[c].raise = "" /\ resp'[c].status = 500)))
                => /\ available' = available /\ banned' = banned
                   /\ unavailable_timestamp' = unavailable_timestamp
                   /\ ban_timestamp' = ban_timestamp
          /\ (pc[c] = "lap" /\ pc'[c] = "yielded"
               /\ ~available[node'[c]]
               /\ now < unavailable_timestamp[node'[c]] + unavailable_timeout)
                => ~lap_started[c] /\ WorkingSet = {}]_vars

\* a lap that began after the other node had answered 502, 503 or 504 yielded
\* one node only and ended: it skipped the unavailable node
C20_Witness ==
    \E c \in Calls : \E m \in Nodes :
        /\ pc[c] = "done" /\ outcome[c] = "NumRetriesReached"
        /\ Len(yielded[c]) = 1 /\ yielded[c][1] # m
        /\ ~health_changed[c]
        /\ ~available[m] /\ ~banned[m] /\ ban_timestamp[m] = None
        /\ unavailable_timestamp[m] # None

\* C21: the cursor stays on the node that gave the result: when a call
\* returns a result the cursor is on the node that was asked, the next lap
\* begins with the node under the cursor when that node is working, and the
\* cursor only moves in a lap, past a node that is not working or past a node
\* whose pass did not end the call.
C21_CursorStaysOnSuccess ==
    [][\A c \in Calls :
          /\ (Pass(c) /\ outcome'[c] = "result")
                => current_node' = node[c] /\ current_node = node[c]
          /\ (pc[c] = "lap" /\ ~lap_started[c] /\ lap_started'[c]
               /\ current_node \in WorkingSet)
                => /\ pc'[c] = "yielded" /\ node'[c] = current_node
                   /\ current_node' = current_node
          /\ (pc[c] = "done" /\ outcome[c] = "result" /\ pc'[c] = "done")
                => current_node' = current_node
          /\ (current_node' # current_node /\ pc'[c] # pc[c])
                => /\ pc[c] = "lap"
                   /\ lap_started[c] \/ current_node \notin WorkingSet]_vars

\* on a ring where no node was ever penalised a lap has begun with the
\* second node of the list: the cursor was left there by a call that got its
\* result from that node
C21_Witness ==
    \E c \in Calls :
        /\ pc[c] = "yielded" /\ yielded[c] = <<1>> /\ current_node = 1
        /\ \A n \in Nodes : ban_timestamp[n] = None /\ unavailable_timestamp[n] = None

\* C22: when calls share the ring and interleave where a generator is
\* suspended, each lap still yields no node twice, and a lap consumed to its
\* end, with no health change since it began, has yielded every working node.
C22_SharedLapsKeepTheRingContract ==
    \A c \in Calls :
        /\ NoRepeats(yielded[c])
        /\ (pc[c] = "done" /\ outcome[c] = "NumRetriesReached" /\ ~health_changed[c])
               => WorkingSet \subseteq Range(yielded[c])

\* node n is available and not banned by the new_client properties, read
\* without healing
NewUsable(n) ==
    /\ available[n] \/ now >= unavailable_timestamp[n] + new_unavailable_timeout
    /\ ~(banned[n] /\ now < ban_timestamp[n] + ban_timeout)

\* C23: the lap of the new_client container yields at most nodes_amount
\* nodes, yields no node twice, and every node it yields, the first
\* included, is available and not banned when it is yielded.
C23_NewClientLapKeepsTheRingContract ==
    \A c \in Calls :
        /\ Len(yielded[c]) <= nodes_amount
        /\ NoRepeats(yielded[c])
        /\ pc[c] = "yielded" => NewUsable(node[c])

====
